---- MODULE Spec2Model ----
(***************************************************************************)
(* Echoes of Tomorrow: the turn controller (js/app.js handleCardSelect,    *)
(* handleRestart, startGameLoop), the metric state and interpolation       *)
(* engine (class GameState) and the card pool helpers (drawCard,           *)
(* getNextThreeCards).                                                     *)
(*                                                                         *)
(* Numbers.  Metric values are JavaScript doubles; the model keeps them as *)
(* integers in units of 1/Scale and rounds an interpolated value down.     *)
(* Times are integer milliseconds.  Math.random() is r / RandDen for an    *)
(* r in 0 .. RandDen-1, so it ranges over [0, 1) as in the browser.        *)
(* NaN is one reserved integer; Math.min, Math.max, addition and the       *)
(* interpolation formula propagate it and every comparison with it is      *)
(* false, as for doubles.                                                  *)
(*                                                                         *)
(* Time.  Only differences of timestamps are read by the code              *)
(* (currentTime - interpolationStart), so the clock origin is moved to     *)
(* the frame in which a selection is accepted.  `now` is the latest        *)
(* timestamp the frame loop has passed to updateInterpolation;             *)
(* performance.now() read inside an input handler runs EventLag ahead of   *)
(* it, so the first frame after a selection sees a negative elapsed time.  *)
(*                                                                         *)
(* Dead data.  reset() leaves interpolationStart, interpolationDuration,   *)
(* interpolationStartValues and interpolationTargetValues as they were.    *)
(* They are read only while isInterpolating, and applyCardEffects          *)
(* overwrites all four before setting it, so after a restart the model     *)
(* stores the constructor's values for them (and 0 for the clock).         *)
(*                                                                         *)
(* Specifications.  Spec is the game on a card file of four cards.         *)
(* SpecPools and SpecMalformed are the same game on other card files,      *)
(* SpecCards is startup and restart for every outcome of the card source,  *)
(* SpecQuality adds the quality button, FairSpec adds the scheduling of    *)
(* frames and of the completion poller, SpecShortFrames adds frames that   *)
(* follow one another ShortStep apart, SpecMessages is the game on the     *)
(* fallback cards in a hidden tab, with the screenshot button.             *)
(* SpecSettings adds the quality and mute buttons and both outcomes of     *)
(* AudioManager.initialize(), SpecEffects follows the effects layer on a   *)
(* card file of two cards, SpecAnimations follows it through one game that *)
(* is never restarted.                                                     *)
(*                                                                         *)
(* Audio.  masterGain is in thousandths and is the value the gain holds    *)
(* once the ramp last scheduled has ended.  updateAudio returns early when *)
(* it ran less than 100 ms ago; the model lets every frame either update   *)
(* or skip.  AudioManager.initialize() fails in a browser without          *)
(* WebAudio, which is the browser of the specifications that do not read   *)
(* the audio state.                                                        *)
(*                                                                         *)
(* Effects layer.  The morph animations (VisualsManager.animateVictory,    *)
(* animateCollapse), the delayed victory and game-over screens and         *)
(* hideModals are written by the poller and by handleRestart and read by   *)
(* nothing in the game state.  effectsLayer is fixed at construction;      *)
(* where it is FALSE the poller leaves the layer alone, so that a          *)
(* specification of the game is not multiplied by the layer's pending      *)
(* callbacks.  A morph value is the numerator of elapsed / duration, and   *)
(* the animate callbacks run on their own clock, AnimStep or twice         *)
(* AnimStep from one frame to the next.                                    *)
(***************************************************************************)
EXTENDS Integers, Sequences, FiniteSets, TLC

\* ---------------------------------------------------------------- bounds
Scale == 10          \* fixed-point units per metric point
RandDen == 2         \* Math.random() takes the values r / RandDen
FrameStep == 400     \* milliseconds from one frame to the next when time advances
EventLag == 16       \* performance.now() in a handler minus the frame timestamp
ShortStep == 8       \* milliseconds between two frames of a fast display
MaxTurn == 6         \* selections are modelled while turn <= MaxTurn
MaxIntervals == 2    \* completion pollers (setInterval) pending at once
MaxPool == 6         \* a card file that parses holds 0 .. MaxPool cards
AnimStep == 500      \* shortest time between two frames of a morph animation
MaxAnimations == 2   \* animate callbacks of one kind pending at once
MaxTimers == 2       \* screen timers of one kind pending at once

\* ------------------------------------------------------ program constants
StartValue == 50
MinValue == 0
MaxValue == 100
VictoryThreshold == 80
VictoryStreak == 5
CollapseThreshold == 5
MinDuration == 500
DurationSpread == 700
OfferSize == 3
InitialGain == 150   \* masterGain.gain.value = 0.15, in thousandths
MinVolume == 50      \* Math.max(0.05, targetVolume)
VolumeSpan == 200    \* targetVolume = cohesion / 100 * 0.2
VictoryDuration == 2000
CollapseDuration == 1500

Metrics == {"ecology", "cohesion", "innovation", "stability"}

\* The double NaN (also what arithmetic makes of a card effect that is not a
\* number): an integer no computation of the model yields.
NaN == -1000000

\* Math.min, Math.max: NaN when an argument is NaN.
Min2(a, b) == IF a = NaN \/ b = NaN THEN NaN ELSE IF a <= b THEN a ELSE b
Max2(a, b) == IF a = NaN \/ b = NaN THEN NaN ELSE IF a >= b THEN a ELSE b

\* a + b on doubles.
Plus(a, b) == IF a = NaN \/ b = NaN THEN NaN ELSE a + b

\* An object without keys ({} in the source).
EmptyMap == [k \in {} |-> 0]

\* The card source (js/cards.json is read at startup and is whatever the
\* deployment provides): four cards, so that an offer of three leaves one
\* eligible card for the next turn.
Deck ==
  << [id |-> "harmony",
      effects |-> [ecology |-> 30, cohesion |-> 30, innovation |-> 30, stability |-> 30],
      variance |-> 0],
     [id |-> "decline", effects |-> [innovation |-> -20], variance |-> 5],
     [id |-> "crash", effects |-> [stability |-> -50], variance |-> 0],
     [id |-> "renewal",
      effects |-> [ecology |-> 30, cohesion |-> 30, innovation |-> 30, stability |-> 30],
      variance |-> 0] >>

\* getDefaultCardPool(): the built-in pool used when loading fails.
getDefaultCardPool ==
  << [id |-> "renewable-energy",
      effects |-> [ecology |-> 8, cohesion |-> 2, innovation |-> 5, stability |-> 3],
      variance |-> 2],
     [id |-> "education",
      effects |-> [ecology |-> 2, cohesion |-> 6, innovation |-> 8, stability |-> 4],
      variance |-> 2],
     [id |-> "conflict-resolution",
      effects |-> [ecology |-> 1, cohesion |-> 8, innovation |-> 2, stability |-> 6],
      variance |-> 2],
     [id |-> "tech-innovation",
      effects |-> [ecology |-> -2, cohesion |-> 3, innovation |-> 10, stability |-> 2],
      variance |-> 2],
     [id |-> "forest-conservation",
      effects |-> [ecology |-> 10, cohesion |-> 1, innovation |-> 1, stability |-> 2],
      variance |-> 2],
     [id |-> "cultural-exchange",
      effects |-> [ecology |-> 1, cohesion |-> 7, innovation |-> 4, stability |-> 3],
      variance |-> 2],
     [id |-> "economic-reform",
      effects |-> [ecology |-> 2, cohesion |-> 5, innovation |-> 3, stability |-> -3],
      variance |-> 2],
     [id |-> "pandemic-response",
      effects |-> [ecology |-> 1, cohesion |-> 4, innovation |-> 3, stability |-> 5],
      variance |-> 2],
     [id |-> "climate-action",
      effects |-> [ecology |-> 9, cohesion |-> 3, innovation |-> 4, stability |-> 1],
      variance |-> 2],
     [id |-> "war",
      effects |-> [ecology |-> -5, cohesion |-> -8, innovation |-> 2, stability |-> -6],
      variance |-> 2] >>

\* The cards a deployed js/cards.json is cut from: a file that parses to an
\* array holds the first n of them, n in 0 .. MaxPool (ids unique).
CardFile == Deck \o getDefaultCardPool

\* What fetch('js/cards.json') and response.json() can do: the fetch rejects,
\* the response is not ok, the body does not parse, the body is the JSON null,
\* or the body is an array of cards.
CardSources ==
  { [kind |-> k, body |-> << >>] :
      k \in {"unavailable", "notOk", "unparsable", "jsonNull"} }
  \cup { [kind |-> "json", body |-> SubSeq(CardFile, 1, n)] : n \in 0 .. MaxPool }

\* loadCards(): cardPool after it.  An array body is assigned as it is; every
\* other outcome throws inside the try (null.length for the JSON null) and the
\* catch assigns the fallback pool.
loadCards(source) ==
  IF source.kind = "json" THEN source.body ELSE getDefaultCardPool

VARIABLES
  cardPool,                  \* app.js: let cardPool
  currentCards,              \* uiManager.currentCards, the offer
  isProcessingInput,         \* app.js: let isProcessingInput
  checkIntervals,            \* number of pending setInterval completion pollers
  variables,                 \* gameState.variables (units of 1/Scale)
  turn,                      \* gameState.turn
  victoryCounter,            \* gameState.victoryCounter
  gameStatus,                \* gameState.gameStatus
  isInterpolating,           \* gameState.isInterpolating
  interpolationStart,        \* gameState.interpolationStart
  interpolationDuration,     \* gameState.interpolationDuration
  interpolationStartValues,  \* gameState.interpolationStartValues
  interpolationTargetValues, \* gameState.interpolationTargetValues
  now,                       \* frame clock (requestAnimationFrame timestamp)
  qualityMode,               \* gameState.qualityMode
  u_quality,                 \* visualsManager.uniforms.u_quality.value
  systemMessage,             \* textContent of the #systemMessage element
  audioMuted,                \* gameState.audioMuted
  isInitialized,             \* audioManager.isInitialized
  isMuted,                   \* audioManager.isMuted
  masterGain,                \* audioManager.masterGain.gain, in thousandths, once its ramp has ended
  effectsLayer,              \* whether the specification follows the effects layer (see the header)
  isAnimatingVictory,        \* visualsManager.isAnimatingVictory
  isAnimatingCollapse,       \* visualsManager.isAnimatingCollapse
  u_victoryMorph,            \* uniforms.u_victoryMorph.value (= victoryMorphProgress), over VictoryDuration
  u_collapseMorph,           \* uniforms.u_collapseMorph.value (= collapseMorphProgress), over CollapseDuration
  victoryAnimations,         \* pending animate callbacks of animateVictory: ms since each startTime
  collapseAnimations,        \* pending animate callbacks of animateCollapse: ms since each startTime
  victoryScreenTimers,       \* pending setTimeout(showVictoryScreen, 500)
  gameOverScreenTimers,      \* pending setTimeout(showGameOverScreen, 500)
  victoryScreen,             \* #victoryScreen is visible (no class hidden)
  gameOverScreen,            \* #gameOverScreen is visible
  terminalEffects,           \* history: animateVictory/animateCollapse calls since the last restart
  acceptedSelections,        \* history: applyCardEffects calls since the last restart
  peakStreak                 \* history: largest victoryCounter since the last restart

vars == << cardPool, currentCards, isProcessingInput, checkIntervals, variables,
           turn, victoryCounter, gameStatus, isInterpolating, interpolationStart,
           interpolationDuration, interpolationStartValues,
           interpolationTargetValues, now, qualityMode, u_quality, systemMessage,
           audioMuted, isInitialized, isMuted, masterGain, effectsLayer,
           isAnimatingVictory, isAnimatingCollapse, u_victoryMorph, u_collapseMorph,
           victoryAnimations, collapseAnimations, victoryScreenTimers,
           gameOverScreenTimers, victoryScreen, gameOverScreen,
           terminalEffects, acceptedSelections, peakStreak >>

history == << terminalEffects, acceptedSelections, peakStreak >>

\* The quality setting and the shader uniform that follows it.
quality == << qualityMode, u_quality >>

\* The mute setting and the audio manager's state.
audio == << audioMuted, isInitialized, isMuted, masterGain >>

\* The effects layer: morph animations and the delayed modal screens.
effectVars == << effectsLayer, isAnimatingVictory, isAnimatingCollapse, u_victoryMorph,
                 u_collapseMorph, victoryAnimations, collapseAnimations,
                 victoryScreenTimers, gameOverScreenTimers, victoryScreen,
                 gameOverScreen >>

gameVars == << variables, turn, victoryCounter, gameStatus, isInterpolating,
               interpolationStart, interpolationDuration,
               interpolationStartValues, interpolationTargetValues >>

\* ------------------------------------------------------------- utilities
\* Faulty variant of clamp: the upper bound is not applied.
clamp_NoUpper(value, min, max) == Max2(min, value)

\* utils: clamp(value, min, max) = Math.max(min, Math.min(max, value))
clamp(value, min, max) == Max2(min, Min2(max, value))

\* utils: easeInOutQuad(t) = t < 0.5 ? 2*t*t : -1 + (4 - 2*t)*t, with t = p / d;
\* the result is a numerator over d*d.
easeInOutQuad(p, d) ==
  IF 2 * p < d THEN 2 * p * p ELSE (4 * d - 2 * p) * p - d * d

\* Faulty variant of Available: the exclusion list is ignored.
Available_NoFilter(pool, exclude) == pool

\* utils: drawCard's `available`: the pool cards whose id is not excluded.
Available(pool, exclude) ==
  SelectSeq(pool, LAMBDA card : card.id \notin exclude)

\* drawCard's null.
NoCard == [null |-> TRUE]

\* utils: drawCard, as the set of values it can return: null when no card is
\* available, else available[Math.floor(Math.random() * available.length)].
drawCard(pool, exclude) ==
  LET available == Available(pool, exclude) IN
  IF Len(available) = 0 THEN { NoCard }
  ELSE { available[i] : i \in 1 .. Len(available) }

\* Faulty variant of DrawLoop: a drawn id is not added to the exclusion list.
RECURSIVE DrawLoop_NoPush(_, _, _)
DrawLoop_NoPush(pool, exclude, n) ==
  IF n = 0 THEN { << >> }
  ELSE UNION { IF card = NoCard THEN DrawLoop_NoPush(pool, exclude, n - 1)
               ELSE { << card >> \o rest : rest \in DrawLoop_NoPush(pool, exclude, n - 1) } :
               card \in drawCard(pool, exclude) }

\* utils: getNextThreeCards' loop, as the set of offers it can build in n more
\* draws: a null draw is skipped, a drawn card is pushed and its id added to
\* the exclusion list.
RECURSIVE DrawLoop(_, _, _)
DrawLoop(pool, exclude, n) ==
  IF n = 0 THEN { << >> }
  ELSE UNION { IF card = NoCard THEN DrawLoop(pool, exclude, n - 1)
               ELSE { << card >> \o rest :
                        rest \in DrawLoop(pool, exclude \cup {card.id}, n - 1) } :
               card \in drawCard(pool, exclude) }

\* previousCards.map(c => c.id)
Ids(cards) == { cards[i].id : i \in 1 .. Len(cards) }

\* utils: getNextThreeCards(cardPool, previousCards), as the set of offers it
\* can return.
getNextThreeCards(pool, previousCards) ==
  IF Len(pool) = 0 THEN { << >> }
  ELSE DrawLoop(pool, Ids(previousCards), OfferSize)

\* ---------------------------------------------------------- quality mode
\* handleQualityToggle: const modes = ['low', 'medium', 'high']
modes == << "low", "medium", "high" >>

\* Array.prototype.indexOf, zero-based, -1 when absent.
indexOf(array, value) ==
  IF \E i \in 1 .. Len(array) : array[i] = value
  THEN (CHOOSE i \in 1 .. Len(array) : array[i] = value) - 1
  ELSE -1

\* updateUniforms: const qualityMap = { 'low': 0, 'medium': 1, 'high': 2 }
qualityMap == [low |-> 0, medium |-> 1, high |-> 2]

\* updateUniforms: qualityMap[qualityMode] || 1.  The || takes the default for
\* undefined and for every falsy value, 0 included.
qualityUniform(mode) ==
  IF mode \notin DOMAIN qualityMap \/ qualityMap[mode] = 0 THEN 1 ELSE qualityMap[mode]

\* ------------------------------------------------------------- GameState
InitialVariables == [k \in Metrics |-> StartValue * Scale]

\* Faulty variant of PerturbedEffect: the perturbation spans twice the variance.
PerturbedEffect_Wide(value, variance, r) ==
  Plus(IF value = NaN THEN NaN ELSE value * Scale,
       ((2 * r - RandDen) * 2 * variance * Scale) \div RandDen)

\* applyCardEffects, first loop: effects[key] = value + (Math.random() - 0.5) * 2 * variance
\* with Math.random() = r / RandDen.
PerturbedEffect(value, variance, r) ==
  Plus(IF value = NaN THEN NaN ELSE value * Scale,
       ((2 * r - RandDen) * variance * Scale) \div RandDen)

\* applyCardEffects, second loop: the clamped target of every key of the card.
TargetValues(card, rv) ==
  [k \in DOMAIN card.effects |->
     clamp(Plus(variables[k], PerturbedEffect(card.effects[k], card.variance, rv[k])),
           MinValue * Scale, MaxValue * Scale)]

\* applyCardEffects: one Math.random() draw per key of the card's effects.  With
\* variance 0 every draw gives the same effect, so one stands for all.
RandomDraws(card) ==
  [DOMAIN card.effects -> IF card.variance = 0 THEN {0} ELSE 0 .. RandDen - 1]

\* Faulty variant of Duration: the base of 500 ms is left out.
Duration_NoBase(r) == (r * DurationSpread) \div RandDen

\* applyCardEffects: interpolationDuration = 500 + Math.random() * 700
Duration(r) == MinDuration + (r * DurationSpread) \div RandDen

\* updateInterpolation: progress = Math.min(elapsed / duration, 1), as a
\* numerator over interpolationDuration.
Progress(currentTime) ==
  Min2(currentTime - interpolationStart, interpolationDuration)

\* Faulty variant of Interpolated: a metric without a target moves to 0.
Interpolated_AllKeys(currentTime) ==
  LET d == interpolationDuration
      eased == easeInOutQuad(Progress(currentTime), d)
  IN [k \in Metrics |->
        LET target == IF k \in DOMAIN interpolationTargetValues
                      THEN interpolationTargetValues[k] ELSE 0
        IN interpolationStartValues[k]
           + ((target - interpolationStartValues[k]) * eased) \div (d * d)]

\* updateInterpolation: variables[key] = start + (target - start) * easedProgress
Interpolated(currentTime) ==
  LET d == interpolationDuration
      eased == easeInOutQuad(Progress(currentTime), d)
  IN [k \in Metrics |->
        IF k \in DOMAIN interpolationTargetValues
        THEN IF interpolationStartValues[k] = NaN \/ interpolationTargetValues[k] = NaN
             THEN NaN
             ELSE interpolationStartValues[k]
                  + ((interpolationTargetValues[k] - interpolationStartValues[k]) * eased)
                    \div (d * d)
        ELSE variables[k]]

\* updateInterpolation: the snap to the target values when progress >= 1.
Snapped ==
  [k \in Metrics |->
     IF k \in DOMAIN interpolationTargetValues
     THEN interpolationTargetValues[k] ELSE variables[k]]

\* checkVictoryCondition / checkCollapseCondition predicates on a snapshot; a
\* comparison with NaN is false.
AllHigh(v) == \A k \in Metrics : v[k] # NaN /\ v[k] >= VictoryThreshold * Scale
AnyLow(v) == \E k \in Metrics : v[k] # NaN /\ v[k] <= CollapseThreshold * Scale

\* The order in which formatMessage looks at the metrics.
MetricOrder == << "ecology", "cohesion", "innovation", "stability" >>

\* A system message: a fixed text, or the sentences of an effect summary, one
\* per named metric with the delta it prints.
FixedMessage(text) == [text |-> text, parts |-> << >>]

\* The element's text before the first message (the page's markup is not part
\* of the sources; no message has been rendered yet).
NoMessage == FixedMessage("")
RestartMessage == FixedMessage("Game restarted. Choose wisely.")
ScreenshotMessage == FixedMessage("Screenshot saved!")

\* utils: formatMessage(card, effects): one sentence for each metric whose effect
\* is > 0 or < 0, in the order of MetricOrder; messages.slice(0, 2).join('. ')
\* || 'Echo sent.'. A missing effect or NaN is neither > 0 nor < 0.
formatMessage(card, effects) ==
  LET named == SelectSeq(MetricOrder,
                         LAMBDA k : /\ k \in DOMAIN effects
                                    /\ effects[k] # NaN
                                    /\ effects[k] # 0)
      messages == [i \in 1 .. Len(named) |->
                     [metric |-> named[i], delta |-> effects[named[i]]]]
      slice == SubSeq(messages, 1, IF Len(messages) < 2 THEN Len(messages) ELSE 2)
  IN IF slice = << >> THEN FixedMessage("Echo sent.")
     ELSE [text |-> "", parts |-> slice]

\* ------------------------------------------------------------------ Init
\* new GameState(), new UIManager state other than the offer, and the globals
\* of app.js other than cardPool.
GameConstructed ==
  /\ isProcessingInput = FALSE
  /\ checkIntervals = 0
  /\ variables = InitialVariables
  /\ turn = 1
  /\ victoryCounter = 0
  /\ gameStatus = "playing"
  /\ isInterpolating = FALSE
  /\ interpolationStart = 0
  /\ interpolationDuration = 0
  /\ interpolationStartValues = EmptyMap
  /\ interpolationTargetValues = EmptyMap
  /\ now = 0
  /\ qualityMode = "medium"
  /\ u_quality = 1
  /\ systemMessage = NoMessage
  /\ terminalEffects = 0
  /\ acceptedSelections = 0
  /\ peakStreak = 0

\* new AudioManager() and audioManager.initialize(): `initialized` tells whether
\* the browser gave an AudioContext and the nodes (initialize() catches the
\* failure and leaves isInitialized false; the game runs without sound).
AudioConstructed(initialized) ==
  /\ audioMuted = FALSE
  /\ isInitialized = initialized
  /\ isMuted = FALSE
  /\ masterGain = IF initialized THEN InitialGain ELSE 0

\* new VisualsManager() and the page as loaded: no animation, both morph values
\* 0, both modal screens hidden, nothing scheduled.
EffectsConstructed(followed) ==
  /\ effectsLayer = followed
  /\ isAnimatingVictory = FALSE
  /\ isAnimatingCollapse = FALSE
  /\ u_victoryMorph = 0
  /\ u_collapseMorph = 0
  /\ victoryAnimations = << >>
  /\ collapseAnimations = << >>
  /\ victoryScreenTimers = 0
  /\ gameOverScreenTimers = 0
  /\ victoryScreen = FALSE
  /\ gameOverScreen = FALSE

\* The game in a browser without WebAudio, the effects layer not followed.
Constructed ==
  /\ GameConstructed
  /\ AudioConstructed(FALSE)
  /\ EffectsConstructed(FALSE)

\* The state initGame() leaves when js/cards.json holds Deck.
Init ==
  /\ cardPool = Deck
  /\ currentCards \in getNextThreeCards(cardPool, << >>)
  /\ Constructed

\* The state initGame() leaves, for every outcome of the card source:
\* loadCards(), then drawNewCards() with the empty offer of the constructor.
InitCards ==
  /\ \E source \in CardSources : cardPool = loadCards(source)
  /\ currentCards \in getNextThreeCards(cardPool, << >>)
  /\ Constructed

\* ------------------------------------------------- GameState operations
\* Faulty variant of VictoryCounterAfter: the else branch does not reset the counter.
VictoryCounterAfter_NoReset(v, counter) == IF AllHigh(v) THEN counter + 1 ELSE counter

\* checkVictoryCondition: the streak counter after the check.
VictoryCounterAfter(v, counter) == IF AllHigh(v) THEN counter + 1 ELSE 0

\* Faulty variant of checkVictoryCondition: the streak is not required.
checkVictoryCondition_NoStreak(v, counter) == AllHigh(v)

\* checkVictoryCondition: its return value (and gameStatus = 'victory').
checkVictoryCondition(v, counter) ==
  AllHigh(v) /\ VictoryCounterAfter(v, counter) >= VictoryStreak

\* Faulty variant of checkCollapseCondition: stability is left out of the check.
checkCollapseCondition_NoStability(v) ==
  \E k \in Metrics \ {"stability"} : v[k] <= CollapseThreshold * Scale

\* checkCollapseCondition: its return value (and gameStatus = 'collapse').
checkCollapseCondition(v) == AnyLow(v)

\* advanceTurn: this.turn++
advanceTurn(t) == t + 1

\* Faulty variants of SelectRejected: the guard without the re-entrancy flag, and
\* without the status test.
SelectRejected_NoFlag == gameStatus # "playing" \/ isInterpolating
SelectRejected_NoStatus == isInterpolating \/ isProcessingInput

\* The guard of handleCardSelect: TRUE when the call returns at once.
SelectRejected ==
  gameStatus # "playing" \/ isInterpolating \/ isProcessingInput

\* ---------------------------------------------------------------- actions
\* Faulty variant of handleCardSelect: the targets are written to the metrics at
\* once, before the start snapshot is taken.
handleCardSelect_Immediate(cardIndex) ==
  IF SelectRejected
  THEN UNCHANGED vars
  ELSE IF cardIndex + 1 > Len(currentCards)
  THEN /\ isProcessingInput' = TRUE
       /\ UNCHANGED << cardPool, currentCards, checkIntervals, gameVars, now, quality,
                       systemMessage, audio, effectVars, history >>
  ELSE LET card == currentCards[cardIndex + 1] IN
       \E rv \in RandomDraws(card), rd \in 0 .. RandDen - 1 :
         /\ turn <= MaxTurn
         /\ checkIntervals < MaxIntervals
         /\ isProcessingInput' = TRUE
         /\ now' = 0
         /\ interpolationTargetValues' = TargetValues(card, rv)
         /\ variables' = [k \in Metrics |->
                            IF k \in DOMAIN card.effects
                            THEN interpolationTargetValues'[k] ELSE variables[k]]
         /\ interpolationStartValues' = variables'
         /\ isInterpolating' = TRUE
         /\ interpolationStart' = now' + EventLag
         /\ interpolationDuration' = Duration(rd)
         /\ checkIntervals' = checkIntervals + 1
         /\ systemMessage' = formatMessage(card, card.effects)
         /\ acceptedSelections' = acceptedSelections + 1
         /\ UNCHANGED << cardPool, currentCards, turn, victoryCounter,
                         gameStatus, quality, audio, effectVars, terminalEffects,
                         peakStreak >>

\* handleCardSelect(cardIndex): keys 1-3 and the card buttons call it with 0, 1, 2.
\* rv[key] and rd are the Math.random() draws of applyCardEffects.
handleCardSelect(cardIndex) ==
  IF SelectRejected
  THEN UNCHANGED vars
  ELSE IF cardIndex + 1 > Len(currentCards)
  THEN \* isProcessingInput = true; card is undefined: return
       /\ isProcessingInput' = TRUE
       /\ UNCHANGED << cardPool, currentCards, checkIntervals, gameVars, now, quality,
                       systemMessage, audio, effectVars, history >>
  ELSE LET card == currentCards[cardIndex + 1] IN
       \E rv \in RandomDraws(card), rd \in 0 .. RandDen - 1 :
         /\ turn <= MaxTurn
         /\ checkIntervals < MaxIntervals
         /\ isProcessingInput' = TRUE
         /\ now' = 0
         /\ interpolationStartValues' = variables
         /\ interpolationTargetValues' = TargetValues(card, rv)
         /\ isInterpolating' = TRUE
         /\ interpolationStart' = now' + EventLag
         /\ interpolationDuration' = Duration(rd)
         /\ checkIntervals' = checkIntervals + 1
         /\ systemMessage' = formatMessage(card, card.effects)
         /\ acceptedSelections' = acceptedSelections + 1
         /\ UNCHANGED << cardPool, currentCards, variables, turn, victoryCounter,
                         gameStatus, quality, audio, effectVars, terminalEffects,
                         peakStreak >>

\* visualsManager.animateVictory(): the flag, victoryMorphProgress = 0, and the
\* first animate() call, which runs at once with no time elapsed, writes 0 to the
\* uniform and requests the next frame.
animateVictory ==
  /\ Len(victoryAnimations) < MaxAnimations
  /\ isAnimatingVictory' = TRUE
  /\ u_victoryMorph' = 0
  /\ victoryAnimations' = Append(victoryAnimations, 0)

\* visualsManager.animateCollapse()
animateCollapse ==
  /\ Len(collapseAnimations) < MaxAnimations
  /\ isAnimatingCollapse' = TRUE
  /\ u_collapseMorph' = 0
  /\ collapseAnimations' = Append(collapseAnimations, 0)

\* The poller's victory and collapse branches: the animation starts and the
\* screen is scheduled with setTimeout (the sounds and the screen reader
\* announcement are not modelled).  Specifications of the game alone do not
\* follow the layer.
TerminalEffects(victory, collapse) ==
  IF ~effectsLayer \/ ~(victory \/ collapse)
  THEN UNCHANGED effectVars
  ELSE IF victory
  THEN /\ animateVictory
       /\ victoryScreenTimers < MaxTimers
       /\ victoryScreenTimers' = victoryScreenTimers + 1
       /\ UNCHANGED << effectsLayer, isAnimatingCollapse, u_collapseMorph,
                       collapseAnimations, gameOverScreenTimers, victoryScreen,
                       gameOverScreen >>
  ELSE /\ animateCollapse
       /\ gameOverScreenTimers < MaxTimers
       /\ gameOverScreenTimers' = gameOverScreenTimers + 1
       /\ UNCHANGED << effectsLayer, isAnimatingVictory, u_victoryMorph,
                       victoryAnimations, victoryScreenTimers, victoryScreen,
                       gameOverScreen >>

\* handleRestart: uiManager.hideModals() and the four assignments to the morph
\* values.  Pending animate callbacks and screen timers are not cancelled and
\* the animation flags are not written.
RestartEffects ==
  /\ victoryScreen' = FALSE
  /\ gameOverScreen' = FALSE
  /\ u_victoryMorph' = 0
  /\ u_collapseMorph' = 0
  /\ UNCHANGED << effectsLayer, isAnimatingVictory, isAnimatingCollapse,
                  victoryAnimations, collapseAnimations, victoryScreenTimers,
                  gameOverScreenTimers >>

\* The setInterval callback of handleCardSelect, one firing of one pending poller.
checkInterval ==
  /\ checkIntervals > 0
  /\ IF isInterpolating
     THEN UNCHANGED vars
     ELSE LET victory == checkVictoryCondition(variables, victoryCounter)
              collapse == ~victory /\ checkCollapseCondition(variables)
          IN /\ checkIntervals' = checkIntervals - 1
             /\ victoryCounter' = VictoryCounterAfter(variables, victoryCounter)
             /\ gameStatus' = IF victory THEN "victory"
                              ELSE IF collapse THEN "collapse" ELSE gameStatus
             /\ terminalEffects' = IF victory \/ collapse
                                   THEN terminalEffects + 1 ELSE terminalEffects
             /\ turn' = IF victory \/ collapse THEN turn ELSE advanceTurn(turn)
             /\ currentCards' \in IF victory \/ collapse THEN {currentCards}
                                  ELSE getNextThreeCards(cardPool, currentCards)
             /\ isProcessingInput' = FALSE
             /\ peakStreak' = Max2(peakStreak, victoryCounter')
             /\ TerminalEffects(victory, collapse)
             /\ UNCHANGED << cardPool, variables, isInterpolating,
                             interpolationStart, interpolationDuration,
                             interpolationStartValues, interpolationTargetValues,
                             now, quality, systemMessage, audio, acceptedSelections >>

\* audioManager.setMute(muted)
setMute(muted) ==
  IF ~isInitialized
  THEN UNCHANGED << isMuted, masterGain >>
  ELSE /\ isMuted' = muted
       /\ masterGain' = IF isMuted' THEN 0 ELSE InitialGain

\* Faulty variant of handleRestart: the settings go back to their defaults.
handleRestart_ResetsSettings ==
  /\ variables' = InitialVariables
  /\ turn' = 1
  /\ victoryCounter' = 0
  /\ gameStatus' = "playing"
  /\ isInterpolating' = FALSE
  /\ currentCards' \in getNextThreeCards(cardPool, currentCards)
  /\ isProcessingInput' = FALSE
  /\ terminalEffects' = 0
  /\ acceptedSelections' = 0
  /\ peakStreak' = 0
  /\ interpolationStart' = 0
  /\ interpolationDuration' = 0
  /\ interpolationStartValues' = EmptyMap
  /\ interpolationTargetValues' = EmptyMap
  /\ now' = 0
  /\ systemMessage' = RestartMessage
  /\ qualityMode' = "medium"
  /\ audioMuted' = FALSE
  /\ setMute(FALSE)
  /\ RestartEffects
  /\ UNCHANGED << cardPool, checkIntervals, u_quality, isInitialized >>

\* Faulty variant of handleRestart: the re-entrancy flag is not cleared.
handleRestart_KeepsFlag ==
  /\ variables' = InitialVariables
  /\ turn' = 1
  /\ victoryCounter' = 0
  /\ gameStatus' = "playing"
  /\ isInterpolating' = FALSE
  /\ currentCards' \in getNextThreeCards(cardPool, currentCards)
  /\ terminalEffects' = 0
  /\ acceptedSelections' = 0
  /\ peakStreak' = 0
  /\ interpolationStart' = 0
  /\ interpolationDuration' = 0
  /\ interpolationStartValues' = EmptyMap
  /\ interpolationTargetValues' = EmptyMap
  /\ now' = 0
  /\ systemMessage' = RestartMessage
  /\ RestartEffects
  /\ UNCHANGED << cardPool, checkIntervals, isProcessingInput, quality, audio >>

\* handleRestart: gameState.reset(), drawNewCards(), isProcessingInput = false.
\* A pending poller is not cleared.
handleRestart ==
  /\ variables' = InitialVariables
  /\ turn' = 1
  /\ victoryCounter' = 0
  /\ gameStatus' = "playing"
  /\ isInterpolating' = FALSE
  /\ currentCards' \in getNextThreeCards(cardPool, currentCards)
  /\ isProcessingInput' = FALSE
  /\ terminalEffects' = 0
  /\ acceptedSelections' = 0
  /\ peakStreak' = 0
  /\ interpolationStart' = 0
  /\ interpolationDuration' = 0
  /\ interpolationStartValues' = EmptyMap
  /\ interpolationTargetValues' = EmptyMap
  /\ now' = 0
  /\ systemMessage' = RestartMessage
  /\ RestartEffects
  /\ UNCHANGED << cardPool, checkIntervals, quality, audio >>

\* Faulty variant of updateInterpolation: completion is never detected.
updateInterpolation_NoSnap(currentTime) ==
  IF ~isInterpolating
  THEN UNCHANGED << variables, isInterpolating >>
  ELSE /\ variables' = Interpolated(currentTime)
       /\ UNCHANGED isInterpolating

\* updateInterpolation(currentTime)
updateInterpolation(currentTime) ==
  IF ~isInterpolating
  THEN UNCHANGED << variables, isInterpolating >>
  ELSE IF Progress(currentTime) >= interpolationDuration
  THEN /\ isInterpolating' = FALSE
       /\ variables' = Snapped
  ELSE /\ variables' = Interpolated(currentTime)
       /\ UNCHANGED isInterpolating

\* Time advances between frames only while an interpolation can still observe it.
ClockStep(dt) ==
  dt = 0 \/ (isInterpolating /\ now < interpolationStart + interpolationDuration)

\* visualsManager.updateUniforms: u_quality follows the quality mode (the metric
\* uniforms and u_time are not modelled).
updateUniforms ==
  u_quality' = qualityUniform(qualityMode)

\* audioManager.updateAudio(variables): nothing without an initialized context
\* and nothing within 100 ms of the last update (the frame may or may not be
\* throttled); otherwise the master gain ramps to max(0.05, cohesion / 100 * 0.2).
\* A ramp to NaN throws and is caught.  The frequencies are not modelled.
updateAudio(v) ==
  IF ~isInitialized
  THEN UNCHANGED masterGain
  ELSE \/ UNCHANGED masterGain
       \/ masterGain' = IF v["cohesion"] = NaN THEN masterGain
                        ELSE Max2(MinVolume,
                                  (v["cohesion"] * VolumeSpan) \div (MaxValue * Scale))

\* startGameLoop's loop(currentTime) with the tab visible.
loopVisible(dt) ==
  /\ ClockStep(dt)
  /\ now' = now + dt
  /\ updateInterpolation(now')
  /\ updateUniforms
  /\ updateAudio(variables')
  /\ UNCHANGED << audioMuted, isInitialized, isMuted, effectVars >>
  /\ UNCHANGED << qualityMode, cardPool, currentCards, isProcessingInput, checkIntervals, turn,
                  victoryCounter, gameStatus, interpolationStart,
                  interpolationDuration, interpolationStartValues,
                  interpolationTargetValues, systemMessage, history >>

\* Faulty variant of loopHidden: the hidden tab is not checked for.
loopHidden_Updates == loopVisible(FrameStep)

\* startGameLoop's loop(currentTime) with document.hidden: currentTime is not
\* read and nothing is updated.
loopHidden ==
  UNCHANGED vars

\* handleScreenshot: exportCanvas() downloads the canvas, then the message.
handleScreenshot ==
  /\ systemMessage' = ScreenshotMessage
  /\ UNCHANGED << cardPool, currentCards, isProcessingInput, checkIntervals, gameVars,
                  now, quality, audio, effectVars, history >>

\* handleMuteToggle: the flag is flipped and handed to the audio manager.
handleMuteToggle ==
  /\ audioMuted' = ~audioMuted
  /\ setMute(audioMuted')
  /\ UNCHANGED << cardPool, currentCards, isProcessingInput, checkIntervals, gameVars,
                  now, quality, systemMessage, isInitialized, effectVars, history >>

\* Faulty variant of handleQualityToggle: the index wraps one step early.
handleQualityToggle_ShortCycle ==
  /\ qualityMode' = modes[((indexOf(modes, qualityMode) + 1) % (Len(modes) - 1)) + 1]
  /\ UNCHANGED << cardPool, currentCards, isProcessingInput, checkIntervals, gameVars,
                  now, u_quality, systemMessage, audio, effectVars, history >>

\* handleQualityToggle: the next mode of the cycle; the uniform follows at the
\* next visible frame.
handleQualityToggle ==
  /\ qualityMode' = modes[((indexOf(modes, qualityMode) + 1) % Len(modes)) + 1]
  /\ UNCHANGED << cardPool, currentCards, isProcessingInput, checkIntervals, gameVars,
                  now, u_quality, systemMessage, audio, effectVars, history >>

\* The animate callbacks' clocks after dt more milliseconds.
Later(animations, dt) == [i \in DOMAIN animations |-> animations[i] + dt]

\* The callbacks that request another frame: those whose progress is below 1.
Requested(animations, duration) ==
  SelectSeq(animations, LAMBDA elapsed : elapsed < duration)

\* Faulty variant of MorphAfter: elapsed / duration without Math.min.
MorphAfter_Unclamped(animations, duration, morph) ==
  IF animations = << >> THEN morph ELSE animations[Len(animations)]

\* The morph value the callbacks of one frame leave: each writes
\* Math.min(elapsed / duration, 1), in the order of their requests.
MorphAfter(animations, duration, morph) ==
  IF animations = << >> THEN morph
  ELSE LET elapsed == animations[Len(animations)]
       IN IF elapsed < duration THEN elapsed ELSE duration

\* The flag the callbacks of one frame leave: cleared by a callback whose
\* progress has reached 1.
FlagAfter(animations, duration, flag) ==
  IF \E i \in DOMAIN animations : animations[i] >= duration THEN FALSE ELSE flag

\* One frame's run of the pending animate callbacks of animateVictory and
\* animateCollapse, dt ms after the previous one (their clock is
\* performance.now(), which runs on while the game's clock stands still).
animate(dt) ==
  /\ victoryAnimations # << >> \/ collapseAnimations # << >>
  /\ LET victory == Later(victoryAnimations, dt)
         collapse == Later(collapseAnimations, dt)
     IN /\ u_victoryMorph' = MorphAfter(victory, VictoryDuration, u_victoryMorph)
        /\ isAnimatingVictory' = FlagAfter(victory, VictoryDuration, isAnimatingVictory)
        /\ victoryAnimations' = Requested(victory, VictoryDuration)
        /\ u_collapseMorph' = MorphAfter(collapse, CollapseDuration, u_collapseMorph)
        /\ isAnimatingCollapse' = FlagAfter(collapse, CollapseDuration, isAnimatingCollapse)
        /\ collapseAnimations' = Requested(collapse, CollapseDuration)
  /\ UNCHANGED << cardPool, currentCards, isProcessingInput, checkIntervals, gameVars,
                  now, quality, systemMessage, audio, effectsLayer, victoryScreenTimers,
                  gameOverScreenTimers, victoryScreen, gameOverScreen, history >>

\* The setTimeout callback of the poller's victory branch: showVictoryScreen().
showVictoryScreen ==
  /\ victoryScreenTimers > 0
  /\ victoryScreenTimers' = victoryScreenTimers - 1
  /\ victoryScreen' = TRUE
  /\ UNCHANGED << cardPool, currentCards, isProcessingInput, checkIntervals, gameVars,
                  now, quality, systemMessage, audio, effectsLayer, isAnimatingVictory,
                  isAnimatingCollapse, u_victoryMorph, u_collapseMorph,
                  victoryAnimations, collapseAnimations, gameOverScreenTimers,
                  gameOverScreen, history >>

\* The setTimeout callback of the poller's collapse branch: showGameOverScreen().
showGameOverScreen ==
  /\ gameOverScreenTimers > 0
  /\ gameOverScreenTimers' = gameOverScreenTimers - 1
  /\ gameOverScreen' = TRUE
  /\ UNCHANGED << cardPool, currentCards, isProcessingInput, checkIntervals, gameVars,
                  now, quality, systemMessage, audio, effectsLayer, isAnimatingVictory,
                  isAnimatingCollapse, u_victoryMorph, u_collapseMorph,
                  victoryAnimations, collapseAnimations, victoryScreenTimers,
                  victoryScreen, history >>

Next ==
  \/ \E cardIndex \in 0 .. OfferSize - 1 : handleCardSelect(cardIndex)
  \/ checkInterval
  \/ handleRestart
  \/ \E dt \in {0, FrameStep} : loopVisible(dt)
  \/ loopHidden

Spec == Init /\ [][Next]_vars

\* A card file with a malformed card: the effect on innovation is not a number.
MalformedDeck ==
  [Deck EXCEPT ![2] = [id |-> "broken",
                       effects |-> [ecology |-> 10, innovation |-> NaN],
                       variance |-> 5]]

InitMalformed ==
  /\ cardPool = MalformedDeck
  /\ currentCards \in getNextThreeCards(cardPool, << >>)
  /\ Constructed

SpecMalformed == InitMalformed /\ [][Next]_vars

\* The state initGame() leaves when js/cards.json holds two cards, harmony and
\* crash: an offer of two, and an empty offer after it.
InitTwoCards ==
  /\ cardPool = << Deck[1], Deck[3] >>
  /\ currentCards \in getNextThreeCards(cardPool, << >>)
  /\ Constructed

\* The game when frames keep arriving with the tab visible and an advancing
\* timestamp (requestAnimationFrame), and a pending setInterval poller keeps
\* firing.
FairSpec ==
  /\ InitTwoCards
  /\ [][Next]_vars
  /\ WF_vars(loopVisible(FrameStep))
  /\ WF_vars(checkInterval)

\* The game with the quality button, on the card file of two cards.
NextQuality ==
  \/ Next
  \/ handleQualityToggle

SpecQuality == InitTwoCards /\ [][NextQuality]_vars

\* The game on every non-empty pool cut from Deck (one to four cards).
InitPools ==
  /\ \E n \in 1 .. Len(Deck) : cardPool = SubSeq(Deck, 1, n)
  /\ currentCards \in getNextThreeCards(cardPool, << >>)
  /\ Constructed

SpecPools == InitPools /\ [][Next]_vars

\* The card pipeline alone: every outcome of the card source, and restarts,
\* each of which draws a new offer that excludes the one on display.
NextCards ==
  \/ handleRestart
  \/ \E dt \in {0, FrameStep} : loopVisible(dt)
  \/ loopHidden

SpecCards == InitCards /\ [][NextCards]_vars

\* ================================================================= claims
Terminal == gameStatus \in {"victory", "collapse"}

\* A step of handleCardSelect, whatever the index.
SelectStep == \E cardIndex \in 0 .. OfferSize - 1 : handleCardSelect(cardIndex)

\* A firing of the completion poller that runs the post-interpolation evaluation.
EvaluationStep == checkInterval /\ ~isInterpolating

\* The state reset() and handleRestart leave the game in.
ResetState ==
  /\ turn = 1
  /\ variables = InitialVariables
  /\ victoryCounter = 0
  /\ gameStatus = "playing"
  /\ ~isInterpolating

C2_ReentrantSelectDropped ==
  [][ ((isInterpolating \/ isProcessingInput) /\ SelectStep) => UNCHANGED vars ]_vars

\* C2 witness: a selection is in flight, in the middle of its interpolation,
\* where a second selectCard can arrive.
C2_Witness_InFlight ==
  /\ isProcessingInput
  /\ isInterpolating
  /\ variables # interpolationStartValues
  /\ acceptedSelections = 1

\* C3 (as stated): restart leaves the reset state, and from the reset state
\* with no selection accepted since, no step other than a selection or a
\* further restart changes turn, streak, status or offer.
C3_RestartCancelsTurn ==
  [][ /\ handleRestart => (ResetState' /\ ~isProcessingInput')
      /\ (ResetState /\ acceptedSelections = 0 /\ ~handleRestart)
           => /\ turn' = 1
              /\ victoryCounter' = 0
              /\ gameStatus' = "playing"
              /\ currentCards' = currentCards ]_vars

\* C4 (as stated): a selectCard whose index names no card of the offer changes
\* nothing, the re-entrancy flag included.
C4_BadIndexNoOp ==
  [][ \A cardIndex \in 0 .. OfferSize - 1 :
        (/\ ~SelectRejected
         /\ cardIndex + 1 > Len(currentCards)
         /\ handleCardSelect(cardIndex))
        => UNCHANGED << isProcessingInput, gameVars, currentCards >> ]_vars

\* C5: an evaluation that finds a metric <= 5 sets status to collapse without
\* advancing the turn or drawing an offer, and while status is collapse every
\* selectCard is rejected.
C5_CollapseAtEvaluation ==
  [][ /\ (EvaluationStep /\ AnyLow(variables))
        => /\ gameStatus' = "collapse"
           /\ turn' = turn
           /\ currentCards' = currentCards
      /\ (gameStatus = "collapse" /\ SelectStep) => UNCHANGED vars ]_vars

\* C5 witness: the spec's collapse scenario, stability 50 - 50 = 0 evaluated.
C5_Witness_Collapse ==
  /\ gameStatus = "collapse"
  /\ variables["stability"] = MinValue * Scale
  /\ acceptedSelections = 1
  /\ turn = 1
  /\ checkIntervals = 0

\* C6 (as stated): status is victory only after at least five card selections
\* have been accepted and resolved since the game start or the last restart.
C6_VictoryNeedsFiveSelections ==
  gameStatus = "victory" => acceptedSelections >= VictoryStreak

\* C7: every evaluation sets the streak counter to its previous value plus 1
\* when all four metrics are >= 80 and to 0 otherwise, and status is victory
\* after it only if the counter has reached five.
C7_StreakCounter ==
  [][ EvaluationStep =>
        /\ victoryCounter' = IF \A k \in Metrics : variables[k] >= VictoryThreshold * Scale
                             THEN victoryCounter + 1 ELSE 0
        /\ (gameStatus' = "victory" => victoryCounter' >= VictoryStreak) ]_vars

\* C7 witness: four evaluations in a row with all metrics >= 80, a fifth with a
\* metric below 80, a sixth with all >= 80 again: status playing, counter 1.
C7_Witness_StreakReset ==
  /\ peakStreak = VictoryStreak - 1
  /\ victoryCounter = 1
  /\ gameStatus = "playing"
  /\ acceptedSelections = VictoryStreak + 1
  /\ turn = VictoryStreak + 2

\* C8: once status is victory or collapse, no step but restart changes the
\* status, the metrics or the turn number.
C8_TerminalAbsorbing ==
  [][ (Terminal /\ ~handleRestart)
        => /\ gameStatus' = gameStatus
           /\ variables' = variables
           /\ turn' = turn ]_vars

\* C8 witness: status victory with a poller still pending, so that selections,
\* ticks and a poller firing all happen in a terminal state.
C8_Witness_Victory ==
  /\ gameStatus = "victory"
  /\ checkIntervals > 0

\* C9 (as stated): the terminal effects are triggered exactly once per entry
\* into victory or collapse.
C9_TerminalEffectsOnce ==
  /\ Terminal => terminalEffects = 1
  /\ ~Terminal => terminalEffects = 0

\* C10 (as stated): turn = 1 + the number of selections resolved non-terminally
\* since the last restart: the accepted selections, less the one in flight or
\* the one that ended the game.
C10_TurnCountsSelections ==
  /\ turn \in {acceptedSelections, acceptedSelections + 1}
  /\ (gameStatus = "playing" /\ ~isProcessingInput) => turn = 1 + acceptedSelections
  /\ Terminal => turn = acceptedSelections

\* The number of pool cards whose id is not in the offer `previous`.
Eligible(pool, previous) ==
  Cardinality({ i \in 1 .. Len(pool) : pool[i].id \notin Ids(previous) })

\* A step that draws a new offer: a non-terminal evaluation, or a restart.
DrawStep == (EvaluationStep /\ turn' = turn + 1) \/ handleRestart

\* C11: the cards of every offer have pairwise-distinct ids, and an offer drawn
\* while the pool holds at least three cards that are not in the offer it
\* replaces shares no id with that offer.
C11_OffersDistinct ==
  /\ [](\A i, j \in 1 .. Len(currentCards) :
          i # j => currentCards[i].id # currentCards[j].id)
  /\ [][ (DrawStep /\ Eligible(cardPool, currentCards) >= OfferSize)
           => Ids(currentCards') \cap Ids(currentCards) = {} ]_vars

\* C11 witness: the offer of turn 3, three cards drawn after the one-card offer
\* of turn 2 with no restart in between.
C11_Witness_ThirdOffer ==
  /\ turn = 3
  /\ acceptedSelections = 2
  /\ gameStatus = "playing"
  /\ ~isProcessingInput
  /\ Len(currentCards) = OfferSize

\* C12: the first offer and every offer that replaces one has exactly
\* min(3, eligible) cards, eligible being the pool cards whose id is not in the
\* offer it replaces; and drawCard returns no card exactly when every pool
\* card's id is excluded.  (A draw never returns the offer it replaces unless
\* both are empty, so the steps that change the offer are the draws.)
C12_OfferSize ==
  /\ Len(currentCards) = Min2(OfferSize, Len(cardPool))
  /\ [][ currentCards' # currentCards
           => Len(currentCards') = Min2(OfferSize, Eligible(cardPool, currentCards)) ]_vars
  /\ [](LET drawn == drawCard(cardPool, Ids(currentCards)) IN
        IF \A i \in 1 .. Len(cardPool) : cardPool[i].id \in Ids(currentCards)
        THEN drawn = { NoCard }
        ELSE NoCard \notin drawn)

\* C12 witness: a pool of five cards whose three-card offer was replaced by a
\* restart: only two cards were eligible and the offer holds two.
C12_Witness_ShortOffer ==
  /\ Len(cardPool) = 5
  /\ Len(currentCards) = 2

\* C17 (as stated): after loadCards the card pool is non-empty and the first
\* offer (the offer of every restart-free start) is not empty.
C17_PoolNonEmptyAfterLoad ==
  /\ Len(cardPool) > 0
  /\ Len(cardPool) >= OfferSize \/ Len(cardPool) = Len(getDefaultCardPool)

\* C13 (as stated): while status is playing and no selection is being resolved
\* (no interpolation running, no completion poller pending), a selection can be
\* accepted: the offer is not empty and the re-entrancy flag is clear.
C13_NeverStuck ==
  (gameStatus = "playing" /\ ~isInterpolating /\ checkIntervals = 0)
    => (Len(currentCards) > 0 /\ ~isProcessingInput)

\* C15: a restart from any state leaves turn 1, all metrics 50, streak 0,
\* status playing, no interpolation and the re-entrancy flag clear, and a
\* restart taken in the state a restart leaves changes none of them.
C15_RestartIdempotent ==
  [][ handleRestart
        => /\ turn' = 1
           /\ \A k \in Metrics : variables'[k] = StartValue * Scale
           /\ victoryCounter' = 0
           /\ gameStatus' = "playing"
           /\ ~isInterpolating'
           /\ ~isProcessingInput'
           /\ (ResetState /\ ~isProcessingInput)
                => UNCHANGED << variables, turn, victoryCounter, gameStatus,
                                isInterpolating, isProcessingInput >> ]_vars

\* C15 witness: the state a restart leaves when it interrupts a selection that
\* was being resolved (the poller of that selection is still pending).
C15_Witness_RestartWhileResolving ==
  /\ ResetState
  /\ ~isProcessingInput
  /\ acceptedSelections = 0
  /\ checkIntervals > 0

\* C16 (as stated): whatever the card data, no metric and no interpolation
\* target is ever NaN, and every metric is a number in [0, 100].
C16_NoNaN ==
  /\ \A k \in DOMAIN interpolationTargetValues : interpolationTargetValues[k] # NaN
  /\ \A k \in Metrics :
       /\ variables[k] # NaN
       /\ variables[k] >= MinValue * Scale
       /\ variables[k] <= MaxValue * Scale

\* C18 (as stated): a frame's uniform update leaves u_quality at 0 for the
\* quality mode low, 1 for medium and 2 for high.
C18_QualityUniform ==
  [][ (\E dt \in {0, FrameStep} : loopVisible(dt))
        => u_quality' = CASE qualityMode' = "low" -> 0
                          [] qualityMode' = "medium" -> 1
                          [] qualityMode' = "high" -> 2 ]_vars

\* C19: the quality mode starts as medium, is always low, medium or high, and
\* every toggle moves it one step along low -> medium -> high -> low (a cycle
\* of length three, so three toggles restore it).
C19_QualityCycle ==
  /\ qualityMode = "medium"
  /\ [](qualityMode \in {"low", "medium", "high"})
  /\ [][ handleQualityToggle
           => qualityMode' = CASE qualityMode = "low" -> "medium"
                               [] qualityMode = "medium" -> "high"
                               [] qualityMode = "high" -> "low" ]_vars

\* C19 witness: the mode low, two toggles after the initial medium, shown by a
\* frame drawn in mode high before the second toggle.
C19_Witness_Low ==
  /\ qualityMode = "low"
  /\ u_quality = 2

\* C20: under visible frames with advancing time, every interpolation started
\* by an accepted selection is followed by a state in which it has completed
\* and been evaluated: status terminal or playing, nothing interpolating, the
\* re-entrancy flag clear.
C20_ResolutionCompletes ==
  isInterpolating
    ~> (/\ ~isInterpolating
        /\ ~isProcessingInput
        /\ gameStatus \in {"playing", "victory", "collapse"})

\* C20 witness: the first selection (harmony) has been accepted, interpolated to
\* its end and evaluated by its poller: turn 2, awaiting a selection.
C20_Witness_Resolved ==
  /\ acceptedSelections = 1
  /\ turn = 2
  /\ gameStatus = "playing"
  /\ ~isInterpolating
  /\ ~isProcessingInput
  /\ checkIntervals = 0
  /\ variables = Snapped
  /\ variables # InitialVariables

\* C21 (as stated): at most one completion poller is pending at any time, so
\* each completed interpolation is evaluated once.
C21_OnePollerPending ==
  checkIntervals <= 1

\* A step of handleCardSelect(cardIndex) that is accepted: the guard passes and
\* the index names a card of the offer.
SelectAccepted(cardIndex) ==
  /\ ~SelectRejected
  /\ cardIndex + 1 <= Len(currentCards)
  /\ handleCardSelect(cardIndex)

\* C22: an accepted selection sets a target for exactly the keys of the card's
\* effects, each equal to current + effect + p limited to [0, 100] for some p
\* with |p| <= variance; hence with a metric at 0 or 100 and an effect that
\* pushes it further out (by at least the variance), the target is the current
\* value.
C22_TargetFormula ==
  [][ \A cardIndex \in 0 .. OfferSize - 1 :
        SelectAccepted(cardIndex) =>
          LET card == currentCards[cardIndex + 1]
              limited(x) == IF x < MinValue * Scale THEN MinValue * Scale
                            ELSE IF x > MaxValue * Scale THEN MaxValue * Scale ELSE x
          IN /\ DOMAIN interpolationTargetValues' = DOMAIN card.effects
             /\ \A k \in DOMAIN card.effects :
                  /\ \E p \in -(card.variance * Scale) .. card.variance * Scale :
                       interpolationTargetValues'[k]
                         = limited(variables[k] + card.effects[k] * Scale + p)
                  /\ (variables[k] = MaxValue * Scale /\ card.effects[k] >= card.variance)
                       => interpolationTargetValues'[k] = variables[k]
                  /\ (variables[k] = MinValue * Scale /\ card.effects[k] <= -card.variance)
                       => interpolationTargetValues'[k] = variables[k] ]_vars

\* C22 witness: ecology is at 100 and a card with ecology +30 has just been
\* accepted: the target is 100.
C22_Witness_AtBoundary ==
  /\ isInterpolating
  /\ now = 0
  /\ variables["ecology"] = MaxValue * Scale
  /\ interpolationStartValues["ecology"] = MaxValue * Scale
  /\ interpolationTargetValues["ecology"] = MaxValue * Scale

\* A visible frame, whatever the time it brings.
FrameStepTaken == \E dt \in {0, FrameStep} : loopVisible(dt)

\* C23: an accepted selection leaves the four metrics as they were and stores
\* a copy of them as the start snapshot; the metrics change only in a frame's
\* interpolation update or in a restart.
C23_SelectLeavesMetrics ==
  [][ /\ \A cardIndex \in 0 .. OfferSize - 1 :
           SelectAccepted(cardIndex)
             => /\ variables' = variables
                /\ interpolationStartValues' = variables
      /\ variables' # variables => (FrameStepTaken \/ handleRestart) ]_vars

\* C23 witness: a selection whose target differs from the current value has
\* just been accepted; no frame has run since and the metrics are unchanged.
C23_Witness_JustAccepted ==
  /\ isInterpolating
  /\ now = 0
  /\ acceptedSelections = 2
  /\ variables = interpolationStartValues
  /\ variables # InitialVariables
  /\ \E k \in DOMAIN interpolationTargetValues :
       interpolationTargetValues[k] # variables[k]

\* C24: a frame whose time is at or past the end of the interpolation sets every
\* interpolated metric to its target exactly and leaves the engine idle; a frame
\* before the end leaves it interpolating; only an accepted selection takes the
\* engine from idle to interpolating.
C24_CompletionSnaps ==
  [][ /\ (FrameStepTaken /\ isInterpolating)
           => IF now' - interpolationStart >= interpolationDuration
              THEN /\ ~isInterpolating'
                   /\ \A k \in DOMAIN interpolationTargetValues :
                        variables'[k] = interpolationTargetValues[k]
              ELSE isInterpolating'
      /\ (~isInterpolating /\ isInterpolating')
           => \E cardIndex \in 0 .. OfferSize - 1 : SelectAccepted(cardIndex) ]_vars

\* C24 witness: the frame past the end of the second interpolation has run; the
\* metrics are the targets, which differ from the start snapshot, and the engine
\* is idle with the completion poller still pending.
C24_Witness_Snapped ==
  /\ ~isInterpolating
  /\ isProcessingInput
  /\ checkIntervals = 1
  /\ acceptedSelections = 2
  /\ now >= interpolationStart + interpolationDuration
  /\ interpolationDuration > 0
  /\ variables = Snapped
  /\ \E k \in DOMAIN interpolationTargetValues :
       interpolationTargetValues[k] # interpolationStartValues[k]

\* C25: on every frame of an interpolation, whatever the frame's time, each
\* interpolated metric is start + (target - start) * easeInOutQuad(progress) with
\* progress = elapsed / duration limited to [0, 1], and so lies between its start
\* value and its target.
C25_ProgressClamped ==
  [][ (FrameStepTaken /\ isInterpolating)
        => LET d == interpolationDuration
               elapsed == now' - interpolationStart
               progress == IF elapsed < 0 THEN 0 ELSE IF elapsed > d THEN d ELSE elapsed
               eased == easeInOutQuad(progress, d)
           IN \A k \in DOMAIN interpolationTargetValues :
                LET start == interpolationStartValues[k]
                    target == interpolationTargetValues[k]
                IN /\ variables'[k] = start + ((target - start) * eased) \div (d * d)
                   /\ Min2(start, target) <= variables'[k]
                   /\ variables'[k] <= Max2(start, target) ]_vars

\* The game on a display whose frames can also follow one another ShortStep ms
\* apart, so that more than one frame falls inside the lag between a frame's
\* timestamp and the performance.now() of the selection handled in it.
NextShortFrames == Next \/ loopVisible(ShortStep)

SpecShortFrames == InitTwoCards /\ [][NextShortFrames]_vars

\* A frame of the short-frame game, whatever the time it brings.
ShortFrameStepTaken == FrameStepTaken \/ loopVisible(ShortStep)

\* C26: from one frame of an interpolation to the next, with frame times that do
\* not decrease, each interpolated metric moves toward its target or stays: it
\* never moves away from the target and never passes it.
C26_MonotoneTowardTarget ==
  [][ (ShortFrameStepTaken /\ isInterpolating)
        => \A k \in DOMAIN interpolationTargetValues :
             IF interpolationTargetValues[k] >= interpolationStartValues[k]
             THEN /\ variables[k] <= variables'[k]
                  /\ variables'[k] <= interpolationTargetValues[k]
             ELSE /\ variables[k] >= variables'[k]
                  /\ variables'[k] >= interpolationTargetValues[k] ]_vars

\* The game when js/cards.json cannot be loaded and the tab is hidden after the
\* first offer is drawn: the cards are the first OfferSize + 1 of the fallback
\* pool, handlers and pollers run, frames update nothing.
InitMessages ==
  /\ cardPool = SubSeq(getDefaultCardPool, 1, OfferSize + 1)
  /\ currentCards \in getNextThreeCards(cardPool, << >>)
  /\ Constructed

NextMessages ==
  \/ \E cardIndex \in 0 .. OfferSize - 1 : handleCardSelect(cardIndex)
  \/ checkInterval
  \/ handleRestart
  \/ handleScreenshot
  \/ loopHidden

SpecMessages == InitMessages /\ [][NextMessages]_vars

\* C27: the message of an accepted selection names only metrics whose effect is
\* not zero, at most two of them; when more than two effects are not zero, the
\* two named have the largest magnitudes; when none is, the message is the
\* neutral one.
C27_SummaryNamesLargest ==
  [][ \A cardIndex \in 0 .. OfferSize - 1 :
        SelectAccepted(cardIndex) =>
          LET effects == currentCards[cardIndex + 1].effects
              magnitude(k) == IF effects[k] < 0 THEN -effects[k] ELSE effects[k]
              nonzero == { k \in DOMAIN effects : effects[k] # NaN /\ effects[k] # 0 }
              parts == systemMessage'.parts
              named == { parts[i].metric : i \in DOMAIN parts }
          IN /\ named \subseteq nonzero
             /\ Len(parts) <= 2
             /\ Cardinality(named) = Len(parts)
             /\ Cardinality(nonzero) > 2
                  => /\ Len(parts) = 2
                     /\ \A k \in named, j \in nonzero \ named :
                          magnitude(k) >= magnitude(j)
             /\ nonzero = {} => systemMessage' = FixedMessage("Echo sent.") ]_vars

\* C28: the duration of every interpolation started by an accepted selection is
\* within [500, 1200] ms, whatever the card and its variance, also when the
\* targets equal the current values.
C28_DurationInRange ==
  isInterpolating
    => /\ interpolationDuration >= MinDuration
       /\ interpolationDuration <= MinDuration + DurationSpread

\* C28 witness: an interpolation whose targets equal its start values (all
\* metrics at 100 and a card of +30) is running with a duration above the minimum.
C28_Witness_ZeroChange ==
  /\ isInterpolating
  /\ interpolationTargetValues = interpolationStartValues
  /\ \A k \in Metrics : variables[k] = MaxValue * Scale
  /\ interpolationDuration > MinDuration

\* C29: while an interpolation is active the re-entrancy flag is set and the
\* status is playing.
C29_InterpolatingImpliesBusy ==
  isInterpolating => (isProcessingInput /\ gameStatus = "playing")

\* C29 witness: a selection, a restart during its interpolation and a second
\* selection: an interpolation is active while two pollers are pending.
C29_Witness_AfterRestart ==
  /\ isInterpolating
  /\ checkIntervals = 2
  /\ acceptedSelections = 1
  /\ now > 0

\* C30: the status agrees with the metrics and the streak: collapse only with a
\* metric at or below 5, victory only with all four metrics at or above 80 and
\* a streak of at least 5, playing only with a streak from 0 to 4.
C30_StatusConsistent ==
  /\ gameStatus = "collapse"
       => \E k \in Metrics : variables[k] <= CollapseThreshold * Scale
  /\ gameStatus = "victory"
       => /\ \A k \in Metrics : variables[k] >= VictoryThreshold * Scale
          /\ victoryCounter >= VictoryStreak
  /\ gameStatus = "playing" => victoryCounter \in 0 .. VictoryStreak - 1

\* C30 witness: victory has been declared at the fifth evaluation in a row with
\* all metrics at or above 80.
C30_Witness_Victory ==
  /\ gameStatus = "victory"
  /\ victoryCounter = VictoryStreak
  /\ peakStreak = VictoryStreak
  /\ terminalEffects = 1
  /\ ~isInterpolating

\* C34: a frame that runs while no interpolation is active leaves the four
\* metrics, the turn, the streak and the status as they were, and a frame that
\* arrives while the tab is hidden leaves an active interpolation where it was.
C34_IdleAndHiddenFrames ==
  [][ /\ (FrameStepTaken /\ ~isInterpolating)
           => UNCHANGED << variables, turn, victoryCounter, gameStatus >>
      /\ (loopHidden /\ isInterpolating)
           => UNCHANGED << variables, isInterpolating, interpolationStart,
                           interpolationDuration, interpolationStartValues,
                           interpolationTargetValues >> ]_vars

\* C34 witness: a frame has run in a game without any selection (the quality
\* uniform has followed the button to high) and the metrics, the turn, the
\* streak and the status are still the initial ones.
C34_Witness_IdleFrame ==
  /\ qualityMode = "high"
  /\ u_quality = qualityUniform("high")
  /\ acceptedSelections = 0
  /\ ~isInterpolating
  /\ variables = InitialVariables
  /\ turn = 1
  /\ victoryCounter = 0
  /\ gameStatus = "playing"

\* C35: a metric that the resolved card's effects omit keeps its value on every
\* frame of the interpolation and after its completion, and the keys of the
\* metric snapshot are exactly the four metrics in every state.
C35_OmittedMetricsKept ==
  /\ DOMAIN variables = Metrics
  /\ interpolationTargetValues # EmptyMap
       => \A k \in Metrics \ DOMAIN interpolationTargetValues :
            variables[k] = interpolationStartValues[k]

\* C35 witness: the card with an effect on innovation alone is being resolved,
\* a frame has moved innovation, and the three other metrics are as before.
C35_Witness_OneKeyCard ==
  /\ isInterpolating
  /\ now > 0
  /\ DOMAIN interpolationTargetValues = {"innovation"}
  /\ variables["innovation"] # interpolationStartValues["innovation"]
  /\ \A k \in Metrics \ {"innovation"} : variables[k] = interpolationStartValues[k]

\* The two-card game in a browser with or without WebAudio, with the quality
\* and mute buttons.
InitSettings ==
  /\ cardPool = << Deck[1], Deck[3] >>
  /\ currentCards \in getNextThreeCards(cardPool, << >>)
  /\ GameConstructed
  /\ \E initialized \in BOOLEAN : AudioConstructed(initialized)
  /\ EffectsConstructed(FALSE)

NextSettings ==
  \/ Next
  \/ handleQualityToggle
  \/ handleMuteToggle

SpecSettings == InitSettings /\ [][NextSettings]_vars

\* C33: while the audio is muted the master gain is 0, whatever frames and
\* other operations follow the toggle, and the game's audioMuted flag equals the
\* audio manager's isMuted flag.
C33_MutedIsSilent ==
  /\ isMuted => masterGain = 0
  /\ audioMuted = isMuted

\* C36: a restart leaves the quality mode and the mute setting as they were.
C36_RestartKeepsSettings ==
  [][ handleRestart
        => /\ qualityMode' = qualityMode
           /\ audioMuted' = audioMuted
           /\ isMuted' = isMuted ]_vars

\* C36 witness: the game has just been restarted during a resolution, with the
\* quality at high and the audio muted.
C36_Witness_RestartedWithSettings ==
  /\ systemMessage = RestartMessage
  /\ acceptedSelections = 0
  /\ checkIntervals = 1
  /\ qualityMode = "high"
  /\ audioMuted
  /\ isMuted

\* The two-card game with its effects layer: the collapse animation and the
\* delayed game-over screen run beside the handlers, the poller and the frame
\* loop.  With two cards the offer after the first turn is empty, so the only
\* ending is a collapse.
InitEffects ==
  /\ cardPool = << Deck[1], Deck[3] >>
  /\ currentCards \in getNextThreeCards(cardPool, << >>)
  /\ GameConstructed
  /\ AudioConstructed(FALSE)
  /\ EffectsConstructed(TRUE)

NextEffects ==
  \/ Next
  \/ \E dt \in {AnimStep, 2 * AnimStep} : animate(dt)
  \/ showGameOverScreen

SpecEffects == InitEffects /\ [][NextEffects]_vars

\* One game on Deck from the first offer to its end, never restarted, with the
\* effects layer: both endings, both animations and both screens.
InitAnimations ==
  /\ cardPool = Deck
  /\ currentCards \in getNextThreeCards(cardPool, << >>)
  /\ GameConstructed
  /\ AudioConstructed(FALSE)
  /\ EffectsConstructed(TRUE)

NextAnimations ==
  \/ \E cardIndex \in 0 .. OfferSize - 1 : handleCardSelect(cardIndex)
  \/ checkInterval
  \/ \E dt \in {0, FrameStep} : loopVisible(dt)
  \/ loopHidden
  \/ \E dt \in {AnimStep, 2 * AnimStep} : animate(dt)
  \/ showVictoryScreen
  \/ showGameOverScreen

SpecAnimations == InitAnimations /\ [][NextAnimations]_vars

\* C31: once the game has been restarted the victory and collapse morph values
\* are 0 and stay 0 while the status is playing, also when the restart comes
\* while an animation is running.
C31_MorphZeroWhilePlaying ==
  gameStatus = "playing" => (u_victoryMorph = 0 /\ u_collapseMorph = 0)

\* C32: the victory screen is visible only while the status is victory and the
\* game-over screen only while it is collapse.
C32_ScreensFollowStatus ==
  /\ victoryScreen => gameStatus = "victory"
  /\ gameOverScreen => gameStatus = "collapse"

\* What the claim says of one frame of the animations of one kind, dt ms after
\* the previous frame.  animations holds the elapsed time each running animation
\* wrote at its previous frame, the newest last; the values are numerators over
\* duration.  A frame that ends no animation leaves the flag as it was.
FrameAsClaimed(animations, duration, dt, flag, animationsAfter, morphAfter, flagAfter) ==
  LET newest == animations[Len(animations)] + dt
      Running == {i \in DOMAIN animations : animations[i] + dt < duration}
  IN /\ morphAfter = (IF newest < duration THEN newest ELSE duration)
     /\ morphAfter >= animations[Len(animations)]
     /\ Len(animationsAfter) = Cardinality(Running)
     /\ \A i \in Running :
          \E j \in DOMAIN animationsAfter : animationsAfter[j] = animations[i] + dt
     /\ Running # DOMAIN animations => ~flagAfter
     /\ Running = DOMAIN animations => flagAfter = flag

\* C37: the evaluation that declares a victory sets isAnimatingVictory and
\* starts the morph value at 0; every frame of the animation then writes
\* min(elapsed / 2000, 1), so the value never decreases from frame to frame,
\* stays below 1 with the flag set and a further frame requested while less
\* than 2000 ms have elapsed, and is exactly 1 with the flag cleared and no
\* further frame requested at the frame where 2000 ms have elapsed.  The
\* collapse animation does the same with 1500 ms.
C37_AnimationsRunToOne ==
  [][ /\ (effectsLayer /\ gameStatus = "playing" /\ gameStatus' = "victory")
         => /\ isAnimatingVictory'
            /\ u_victoryMorph' = 0
            /\ victoryAnimations' = Append(victoryAnimations, 0)
      /\ (effectsLayer /\ gameStatus = "playing" /\ gameStatus' = "collapse")
         => /\ isAnimatingCollapse'
            /\ u_collapseMorph' = 0
            /\ collapseAnimations' = Append(collapseAnimations, 0)
      /\ \A dt \in {AnimStep, 2 * AnimStep} : animate(dt) =>
           /\ victoryAnimations # << >> =>
                FrameAsClaimed(victoryAnimations, VictoryDuration, dt, isAnimatingVictory,
                               victoryAnimations', u_victoryMorph', isAnimatingVictory')
           /\ collapseAnimations # << >> =>
                FrameAsClaimed(collapseAnimations, CollapseDuration, dt, isAnimatingCollapse,
                               collapseAnimations', u_collapseMorph', isAnimatingCollapse')
    ]_vars

\* A victory animation has run to its end: the morph value is 1, the flag is
\* cleared and no frame is pending.
C37_Witness_VictoryAnimationOver ==
  /\ gameStatus = "victory"
  /\ u_victoryMorph = VictoryDuration
  /\ ~isAnimatingVictory
  /\ victoryAnimations = << >>

====
